---- MODULE Spec2Model ----
(***************************************************************************)
(* Model of the bandwidth monitoring tool: the NetworkMonitor registry,    *)
(* its background sampling loop (_monitor_loop), the per-target bounded    *)
(* windows, the BandwidthAnalyzer read functions, the SecurityAlertSystem  *)
(* and the presentation handlers of CyberSecurityMonitorGUI that command   *)
(* the core (add_ip, remove_ip, toggle_monitoring, clear_data,            *)
(* export_data, update_gui_data).                                          *)
(*                                                                         *)
(* Two kinds of thread exist: the GUI (Tk main loop) thread, which runs    *)
(* one handler at a time, and the daemon threads that start_monitoring     *)
(* creates, one per call.  A step of the model is one access to shared     *)
(* state; steps of different threads interleave freely.                    *)
(***************************************************************************)
EXTENDS Integers, Sequences, FiniteSets, TLC

(***************************************************************************)
(* Bounds of the model.                                                    *)
(***************************************************************************)
MaxThreads == 2      \* calls of start_monitoring (threads ever created)
MaxSamples == 2      \* samples produced by all loops together
MaxListbox == 2      \* rows of the target listbox

(***************************************************************************)
(* Program constants.                                                      *)
(***************************************************************************)
WindowMaxLen == 100            \* deque(maxlen=100) of every window
AlertsMaxLen == 100            \* deque(maxlen=100) of the alert ring
HighBandwidth == 1048576       \* alert_thresholds['high_bandwidth']
SuspiciousPackets == 1000      \* alert_thresholds['suspicious_packets']
TableRows == 100               \* recent_data[-100:]

(***************************************************************************)
(* Address text.  A string typed by the user is represented by what the    *)
(* parser of ipaddress sees: whether it carries surrounding whitespace     *)
(* (ws), which separator it uses (fam: "v4" for dots, "v6" for colons)     *)
(* and the numeric fields between separators (parts; -1 stands for the     *)
(* "::" gap of a compressed IPv6 text).  The empty string has no parts.    *)
(***************************************************************************)
Text(ws, fam, parts) == [ws |-> ws, fam |-> fam, parts |-> parts]

EmptyText == Text(FALSE, "v4", <<>>)
BlankText == Text(TRUE, "v4", <<>>)
IpA == Text(FALSE, "v4", <<10, 0, 0, 1>>)
IpB == Text(FALSE, "v6", <<-1, 1>>)
IpC == Text(FALSE, "v4", <<192, 168, 1, 1>>)
IpD == Text(FALSE, "v4", <<255, 255, 255, 255>>)
IpE == Text(FALSE, "v6", <<8193, 3512, -1, 1>>)
IpF == Text(FALSE, "v6", <<1, 2, 3, 4, 5, 6, 7, 8>>)
IpG == Text(FALSE, "v4", <<0, 0, 0, 0>>)
Bad999 == Text(FALSE, "v4", <<999, 999, 999, 999>>)
Bad256 == Text(FALSE, "v4", <<256, 1, 1, 1>>)
BadShort == Text(FALSE, "v4", <<1, 2, 3>>)
BadLong == Text(FALSE, "v4", <<1, 2, 3, 4, 5>>)
BadV6Short == Text(FALSE, "v6", <<1, 2, 3>>)
BadV6Two == Text(FALSE, "v6", <<1, -1, 2, -1, 3>>)
BadV6Big == Text(FALSE, "v6", <<-1, 65536>>)
BadV6Long == Text(FALSE, "v6", <<1, 2, 3, 4, 5, 6, 7, -1, 8>>)
PaddedA == Text(TRUE, "v4", <<10, 0, 0, 1>>)

\* str.strip(): removes the surrounding whitespace, keeps the rest.
strip(s) == [s EXCEPT !.ws = FALSE]

\* truth value of a string: non-empty.
NonEmpty(s) == s.ws \/ Len(s.parts) > 0

\* IPv4Address without the range check of the octets.
IPv4Address_any_octet(s) ==
    /\ ~s.ws
    /\ s.fam = "v4"
    /\ Len(s.parts) = 4

\* ipaddress.IPv4Address(text): exactly four octets, each 0..255.
IPv4Address(s) ==
    /\ ~s.ws
    /\ s.fam = "v4"
    /\ Len(s.parts) = 4
    /\ \A i \in 1..4 : s.parts[i] >= 0 /\ s.parts[i] <= 255

\* ipaddress.IPv6Address(text): eight groups of 0..0xFFFF, or fewer with
\* exactly one "::" standing for the missing ones.
IPv6Address(s) ==
    LET gaps == {i \in 1..Len(s.parts) : s.parts[i] = -1}
        groups == Len(s.parts) - Cardinality(gaps)
    IN  /\ ~s.ws
        /\ s.fam = "v6"
        /\ \A i \in 1..Len(s.parts) : s.parts[i] >= -1 /\ s.parts[i] <= 65535
        /\ \/ Cardinality(gaps) = 0 /\ groups = 8
           \/ Cardinality(gaps) = 1 /\ groups <= 7

\* ipaddress.ip_address(text) returns (TRUE) or raises ValueError (FALSE).
ip_address(s) == IPv4Address(s) \/ IPv6Address(s)

\* The strings offered to the registry when it is exercised alone.
ApiTexts ==
    {IpA, IpB, IpC, IpD, IpE, IpF, IpG, EmptyText, BlankText, Bad999, Bad256,
     BadShort, BadLong, BadV6Short, BadV6Two, BadV6Big, BadV6Long, PaddedA}

\* The strings typed into the entry field of the running application.
GuiTexts == {IpA, IpB, PaddedA, Bad999, EmptyText, BlankText}

\* Every id that can be a key of the registry or of a window map.
ValidTexts == {s \in ApiTexts : ip_address(s)}


(***************************************************************************)
(* Sequences and deques.                                                   *)
(***************************************************************************)
\* list[-n:], the last n elements of a sequence.
LastN(q, n) == IF Len(q) <= n THEN q ELSE SubSeq(q, Len(q) - n + 1, Len(q))

\* deque(maxlen=n).append(x): the oldest element leaves a full deque.
dequeAppend(q, x, n) == IF Len(q) < n THEN Append(q, x) ELSE Append(Tail(q), x)

\* The elements of q in reverse order (Treeview.insert('', 0, ...) per row).
Reverse(q) == [i \in 1..Len(q) |-> q[Len(q) + 1 - i]]

RECURSIVE SumSeq(_)
\* sum(deque)
SumSeq(q) == IF q = <<>> THEN 0 ELSE Head(q) + SumSeq(Tail(q))

\* max(deque) of a non-empty deque
MaxSeq(q) == CHOOSE m \in {q[i] : i \in 1..Len(q)} : \A j \in 1..Len(q) : q[j] <= m

\* The orders in which a for loop may visit the elements of a set.
Orders(S) ==
    {q \in [1..Cardinality(S) -> S] : \A i, j \in 1..Cardinality(S) : q[i] = q[j] => i = j}

\* The value the default_factory of bandwidth_data and packet_data builds.
NewWindow == [sent |-> <<>>, received |-> <<>>]

\* dict.get(key, {"sent": deque(), "received": deque()})
get(d, key) == IF key \in DOMAIN d THEN d[key] ELSE NewWindow

\* d[key] = value on a dict
SetItem(d, key, value) == [k \in DOMAIN d \cup {key} |-> IF k = key THEN value ELSE d[k]]

\* d[key][field].append(x) on a window map whose key is present
AppendField(d, key, field, x) ==
    [d EXCEPT ![key][field] = dequeAppend(@, x, WindowMaxLen)]

(***************************************************************************)
(* simulate_ip_traffic: four random counters.  The model gives the k-th    *)
(* draw of a run the values 1024+k, 2048+k, 10+k and 15+k, which lie in    *)
(* the ranges of the generator and tell every sample and every field from  *)
(* the others.                                                             *)
(***************************************************************************)
simulate_ip_traffic(ip, k) ==
    {[ip |-> ip, bytes_sent |-> 1024 + k, bytes_received |-> 2048 + k,
      packets_sent |-> 10 + k, packets_received |-> 15 + k]}

NoSample == [ip |-> EmptyText, bytes_sent |-> 0, bytes_received |-> 0,
             packets_sent |-> 0, packets_received |-> 0]

(***************************************************************************)
(* State.                                                                  *)
(***************************************************************************)
VARIABLES
    monitoring,        \* NetworkMonitor.monitoring, the flag the loops poll
    monitored_ips,     \* NetworkMonitor.monitored_ips, the registry
    bandwidth_data,    \* NetworkMonitor.bandwidth_data: id -> byte windows
    packet_data,       \* NetworkMonitor.packet_data: id -> packet windows
    data_queue,        \* NetworkMonitor.data_queue, the delivery queue
    db_log,            \* rows of table bandwidth_logs, the persistence sink
    ret,               \* what a direct call of add_ip_to_monitor returned ("none": no call yet)
    pc,                \* position of every sampling thread in _monitor_loop
    iter,              \* per thread: ids of the copied set not yet visited
    cur,               \* per thread: the sample of the id being visited
    monitoring_active, \* CyberSecurityMonitorGUI.monitoring_active
    ip_listbox,        \* rows of the target listbox
    gpc,               \* position of the GUI thread inside a handler
    giter,             \* export_data: ids not yet visited
    gdoc,              \* export_data: the dict export_data is building
    export_file,       \* content of the last file export_data wrote
    stats,             \* what update_statistics_display last showed
    data_tree,         \* rows of the data table
    recent_data,       \* update_data_table: the samples taken off the queue so far
    drained,           \* history: every sample get_nowait() has returned
    alerts,            \* SecurityAlertSystem.alerts
    hist_bw,           \* history: byte counts appended since the last clear
    hist_pk,           \* history: packet counts appended since the last clear
    produced           \* history: number of samples drawn so far

core == <<monitoring, monitored_ips, bandwidth_data, packet_data, data_queue, db_log>>
loops == <<pc, iter, cur>>
table == <<data_tree, recent_data, drained>>
gui == <<monitoring_active, ip_listbox, gpc, giter, gdoc, export_file, stats, table>>
history == <<hist_bw, hist_pk, produced>>
vars == <<core, ret, loops, gui, alerts, history>>

Threads == 1..MaxThreads

NoFile == [status |-> "none", doc |-> <<>>]

\* The state after construction, but for the registry and the window maps.
Constructed ==
    /\ monitoring = FALSE
    /\ data_queue = <<>>
    /\ db_log = <<>>
    /\ ret = "none"
    /\ pc = [t \in Threads |-> "unborn"]
    /\ iter = [t \in Threads |-> <<>>]
    /\ cur = [t \in Threads |-> NoSample]
    /\ monitoring_active = FALSE
    /\ ip_listbox = <<>>
    /\ gpc = "idle"
    /\ giter = <<>>
    /\ gdoc = <<>>
    /\ export_file = NoFile
    /\ stats = <<>>
    /\ data_tree = <<>>
    /\ recent_data = <<>>
    /\ drained = <<>>
    /\ alerts = <<>>
    /\ hist_bw = [ip \in ValidTexts |-> NewWindow]
    /\ hist_pk = [ip \in ValidTexts |-> NewWindow]
    /\ produced = 0

Init ==
    /\ Constructed
    /\ monitored_ips = {}
    /\ bandwidth_data = <<>>
    /\ packet_data = <<>>

(***************************************************************************)
(* NetworkMonitor: the registry.                                           *)
(***************************************************************************)
\* add_ip_to_monitor with a duplicate refused as a failure.
add_ip_to_monitor_refusing_duplicates(ips, s) ==
    IF ip_address(s) /\ s \notin ips
    THEN [monitored_ips |-> ips \cup {s}, result |-> TRUE]
    ELSE [monitored_ips |-> ips, result |-> FALSE]

\* add_ip_to_monitor(ip_address) on the registry ips: validate, then
\* set.add; the result is True, or False when ip_address() raised
\* ValueError.  Yields the registry and the result of the call.
add_ip_to_monitor(ips, s) ==
    IF ip_address(s)
    THEN [monitored_ips |-> ips \cup {s}, result |-> TRUE]
    ELSE [monitored_ips |-> ips, result |-> FALSE]

\* remove_ip_from_monitor(ip_address) on the registry ips: set.discard
remove_ip_from_monitor(ips, s) == ips \ {s}

(***************************************************************************)
(* NetworkMonitor: start and stop.                                         *)
(***************************************************************************)
\* start_monitoring(): raise the flag and start one more daemon thread.
start_monitoring ==
    /\ \E t \in Threads :
        /\ pc[t] = "unborn"
        /\ \A u \in Threads : u < t => pc[u] # "unborn"
        /\ pc' = [pc EXCEPT ![t] = "while"]
    /\ monitoring' = TRUE

\* stop_monitoring(): lower the flag; no thread is joined or interrupted.
stop_monitoring ==
    /\ monitoring' = FALSE
    /\ pc' = pc

(***************************************************************************)
(* NetworkMonitor._monitor_loop, one action per access to shared state.    *)
(* Positions: "while" (the test of line 206), "copy" (line 208), "sent",   *)
(* "received", "packets_sent", "packets_received" (lines 212-215; with     *)
(* suffix "_new" while the default_factory of a missing key is running),   *)
(* "db" (line 218), "put" (line 224), "sleep" (line 233), "done".          *)
(***************************************************************************)
\* The test of the while always passing (while True:).
LoopWhile_ignoring_flag(t) ==
    /\ pc[t] = "while"
    /\ pc' = [pc EXCEPT ![t] = "copy"]
    /\ UNCHANGED <<core, ret, iter, cur, gui, alerts, history>>

\* while self.monitoring:
LoopWhile(t) ==
    /\ pc[t] = "while"
    /\ pc' = [pc EXCEPT ![t] = IF monitoring THEN "copy" ELSE "done"]
    /\ UNCHANGED <<core, ret, iter, cur, gui, alerts, history>>

\* The samples that the passes under way have still to draw.
RECURSIVE PendingOf(_)
PendingOf(T) ==
    IF T = {} THEN 0
    ELSE LET t == CHOOSE u \in T : TRUE IN Len(iter[t]) + PendingOf(T \ {t})

Pending == PendingOf(Threads)

\* for ip_address in self.monitored_ips.copy(): the set is copied once and
\* the first id, if any, gets its sample from simulate_ip_traffic.
LoopCopy(t) ==
    /\ pc[t] = "copy"
    /\ produced + Pending + Cardinality(monitored_ips) <= MaxSamples
    /\ \E order \in Orders(monitored_ips) :
        IF order = <<>>
        THEN /\ pc' = [pc EXCEPT ![t] = "sleep"]
             /\ UNCHANGED <<iter, cur, produced>>
        ELSE /\ pc' = [pc EXCEPT ![t] = "sent"]
             /\ iter' = [iter EXCEPT ![t] = Tail(order)]
             /\ produced' = produced + 1
             /\ \E smp \in simulate_ip_traffic(Head(order), produced + 1) :
                    cur' = [cur EXCEPT ![t] = smp]
    /\ UNCHANGED <<core, ret, gui, alerts, hist_bw, hist_pk>>

\* self.bandwidth_data[ip][field].append(value) when the key is present;
\* when it is missing, defaultdict.__missing__ calls the factory first and
\* the thread may be preempted before the new window is stored.
LoopAppendBandwidth(t, field, value, here, next) ==
    /\ pc[t] = here
    /\ IF cur[t].ip \in DOMAIN bandwidth_data
       THEN /\ bandwidth_data' = AppendField(bandwidth_data, cur[t].ip, field, value)
            /\ hist_bw' = [hist_bw EXCEPT ![cur[t].ip][field] = Append(@, value)]
            /\ pc' = [pc EXCEPT ![t] = next]
       ELSE /\ pc' = [pc EXCEPT ![t] = here \o "_new"]
            /\ UNCHANGED <<bandwidth_data, hist_bw>>
    /\ UNCHANGED <<monitoring, monitored_ips, packet_data, data_queue, db_log>>
    /\ UNCHANGED <<ret, iter, cur, gui, alerts, hist_pk, produced>>

\* The rest of defaultdict.__missing__: store the window the factory built
\* under the key, whatever is there by now, and append to it.
LoopInstallBandwidth(t, field, value, here, next) ==
    /\ pc[t] = here \o "_new"
    /\ bandwidth_data' =
          AppendField(SetItem(bandwidth_data, cur[t].ip, NewWindow), cur[t].ip, field, value)
    /\ hist_bw' = [hist_bw EXCEPT ![cur[t].ip][field] = Append(@, value)]
    /\ pc' = [pc EXCEPT ![t] = next]
    /\ UNCHANGED <<monitoring, monitored_ips, packet_data, data_queue, db_log>>
    /\ UNCHANGED <<ret, iter, cur, gui, alerts, hist_pk, produced>>

\* self.packet_data[ip][field].append(value), as for bandwidth_data.
LoopAppendPacket(t, field, value, here, next) ==
    /\ pc[t] = here
    /\ IF cur[t].ip \in DOMAIN packet_data
       THEN /\ packet_data' = AppendField(packet_data, cur[t].ip, field, value)
            /\ hist_pk' = [hist_pk EXCEPT ![cur[t].ip][field] = Append(@, value)]
            /\ pc' = [pc EXCEPT ![t] = next]
       ELSE /\ pc' = [pc EXCEPT ![t] = here \o "_new"]
            /\ UNCHANGED <<packet_data, hist_pk>>
    /\ UNCHANGED <<monitoring, monitored_ips, bandwidth_data, data_queue, db_log>>
    /\ UNCHANGED <<ret, iter, cur, gui, alerts, hist_bw, produced>>

LoopInstallPacket(t, field, value, here, next) ==
    /\ pc[t] = here \o "_new"
    /\ packet_data' =
          AppendField(SetItem(packet_data, cur[t].ip, NewWindow), cur[t].ip, field, value)
    /\ hist_pk' = [hist_pk EXCEPT ![cur[t].ip][field] = Append(@, value)]
    /\ pc' = [pc EXCEPT ![t] = next]
    /\ UNCHANGED <<monitoring, monitored_ips, bandwidth_data, data_queue, db_log>>
    /\ UNCHANGED <<ret, iter, cur, gui, alerts, hist_bw, produced>>

\* Lines 212-215.
LoopSent(t) ==
    LoopAppendBandwidth(t, "sent", cur[t].bytes_sent, "sent", "received")
LoopSentNew(t) ==
    LoopInstallBandwidth(t, "sent", cur[t].bytes_sent, "sent", "received")
\* LoopReceived going on to the database, lines 214-215 left out.
LoopReceived_skipping_packets(t) ==
    LoopAppendBandwidth(t, "received", cur[t].bytes_received, "received", "db")
LoopReceived(t) ==
    LoopAppendBandwidth(t, "received", cur[t].bytes_received, "received", "packets_sent")
LoopReceivedNew(t) ==
    LoopInstallBandwidth(t, "received", cur[t].bytes_received, "received", "packets_sent")
LoopPacketsSent(t) ==
    LoopAppendPacket(t, "sent", cur[t].packets_sent, "packets_sent", "packets_received")
LoopPacketsSentNew(t) ==
    LoopInstallPacket(t, "sent", cur[t].packets_sent, "packets_sent", "packets_received")
LoopPacketsReceived(t) ==
    LoopAppendPacket(t, "received", cur[t].packets_received, "packets_received", "db")
LoopPacketsReceivedNew(t) ==
    LoopInstallPacket(t, "received", cur[t].packets_received, "packets_received", "db")

\* DatabaseManager.add_bandwidth_log: one row is inserted, or sqlite raises
\* and the exception is logged and swallowed.
add_bandwidth_log(row, ok) ==
    db_log' = IF ok THEN Append(db_log, row) ELSE db_log

\* LoopDb with add_bandwidth_log letting the sqlite error out: the except
\* clause of line 235 ends the pass.
LoopDb_raising(t) ==
    /\ pc[t] = "db"
    /\ \E ok \in BOOLEAN :
        /\ add_bandwidth_log(cur[t], ok)
        /\ pc' = [pc EXCEPT ![t] = IF ok THEN "put" ELSE "sleep"]
        /\ iter' = [iter EXCEPT ![t] = IF ok THEN @ ELSE <<>>]
        /\ cur' = [cur EXCEPT ![t] = IF ok THEN @ ELSE NoSample]
    /\ UNCHANGED <<monitoring, monitored_ips, bandwidth_data, packet_data, data_queue>>
    /\ UNCHANGED <<ret, gui, alerts, history>>

LoopDb(t) ==
    /\ pc[t] = "db"
    /\ \E ok \in BOOLEAN : add_bandwidth_log(cur[t], ok)
    /\ pc' = [pc EXCEPT ![t] = "put"]
    /\ UNCHANGED <<monitoring, monitored_ips, bandwidth_data, packet_data, data_queue>>
    /\ UNCHANGED <<ret, iter, cur, gui, alerts, history>>

\* LoopPut with the flag tested inside the for loop: a lowered flag breaks
\* the pass and ends the thread.
LoopPut_checking_flag(t) ==
    /\ pc[t] = "put"
    /\ data_queue' = Append(data_queue, cur[t])
    /\ IF iter[t] = <<>> \/ ~monitoring
       THEN /\ pc' = [pc EXCEPT ![t] = IF monitoring THEN "sleep" ELSE "done"]
            /\ cur' = [cur EXCEPT ![t] = NoSample]
            /\ iter' = [iter EXCEPT ![t] = <<>>]
            /\ UNCHANGED produced
       ELSE /\ pc' = [pc EXCEPT ![t] = "sent"]
            /\ iter' = [iter EXCEPT ![t] = Tail(@)]
            /\ produced' = produced + 1
            /\ \E smp \in simulate_ip_traffic(Head(iter[t]), produced + 1) :
                   cur' = [cur EXCEPT ![t] = smp]
    /\ UNCHANGED <<monitoring, monitored_ips, bandwidth_data, packet_data, db_log>>
    /\ UNCHANGED <<ret, gui, alerts, hist_bw, hist_pk>>

\* self.data_queue.put({...}); then the for loop takes the next id of the
\* copy and draws its sample, or the pass is over.
LoopPut(t) ==
    /\ pc[t] = "put"
    /\ data_queue' = Append(data_queue, cur[t])
    /\ IF iter[t] = <<>>
       THEN /\ pc' = [pc EXCEPT ![t] = "sleep"]
            /\ cur' = [cur EXCEPT ![t] = NoSample]
            /\ UNCHANGED <<iter, produced>>
       ELSE /\ pc' = [pc EXCEPT ![t] = "sent"]
            /\ iter' = [iter EXCEPT ![t] = Tail(@)]
            /\ produced' = produced + 1
            /\ \E smp \in simulate_ip_traffic(Head(iter[t]), produced + 1) :
                   cur' = [cur EXCEPT ![t] = smp]
    /\ UNCHANGED <<monitoring, monitored_ips, bandwidth_data, packet_data, db_log>>
    /\ UNCHANGED <<ret, gui, alerts, hist_bw, hist_pk>>

\* The thread returning after the sleep (a loop body without the while).
LoopSleep_returning(t) ==
    /\ pc[t] = "sleep"
    /\ pc' = [pc EXCEPT ![t] = "done"]
    /\ UNCHANGED <<core, ret, iter, cur, gui, alerts, history>>

\* time.sleep(2), then back to the test of the while.
LoopSleep(t) ==
    /\ pc[t] = "sleep"
    /\ pc' = [pc EXCEPT ![t] = "while"]
    /\ UNCHANGED <<core, ret, iter, cur, gui, alerts, history>>

_monitor_loop(t) ==
    \/ LoopWhile(t)
    \/ LoopCopy(t)
    \/ LoopSent(t)
    \/ LoopSentNew(t)
    \/ LoopReceived(t)
    \/ LoopReceivedNew(t)
    \/ LoopPacketsSent(t)
    \/ LoopPacketsSentNew(t)
    \/ LoopPacketsReceived(t)
    \/ LoopPacketsReceivedNew(t)
    \/ LoopDb(t)
    \/ LoopPut(t)
    \/ LoopSleep(t)


(***************************************************************************)
(* BandwidthAnalyzer.  A float is represented by the exact ratio it        *)
(* rounds: [num, den] in lowest terms, 0.0 being 0/1.                      *)
(***************************************************************************)
RECURSIVE Gcd(_, _)
Gcd(a, b) == IF b = 0 THEN a ELSE Gcd(b, a % b)

Abs(a) == IF a < 0 THEN -a ELSE a

\* n / d for d > 0
Ratio(n, d) == [num |-> n \div Gcd(Abs(n), d), den |-> d \div Gcd(Abs(n), d)]

Zero == Ratio(0, 1)

get_total_bandwidth(ip) ==
    LET data == get(bandwidth_data, ip)
    IN  <<SumSeq(data.sent), SumSeq(data.received)>>

get_average_bandwidth(ip) ==
    LET data == get(bandwidth_data, ip)
    IN  IF data.sent = <<>> \/ data.received = <<>>
        THEN <<Zero, Zero>>
        ELSE <<Ratio(SumSeq(data.sent), Len(data.sent)),
               Ratio(SumSeq(data.received), Len(data.received))>>

get_peak_bandwidth(ip) ==
    LET data == get(bandwidth_data, ip)
    IN  IF data.sent = <<>> \/ data.received = <<>>
        THEN <<0, 0>>
        ELSE <<MaxSeq(data.sent), MaxSeq(data.received)>>

\* np.polyfit(range(len(y)), y, 1)[0], the slope of the least-squares line:
\* (n*Sum(x*y) - Sum(x)*Sum(y)) / (n*Sum(x*x) - Sum(x)^2), computed in
\* floating point by an SVD solver.  When the exact slope is not zero its
\* sign survives the rounding; when it is zero the result is the rounding
\* residue, whose sign (eps: -1, 0 or 1) depends on the data and the build.
polyfit_slope(y, eps) ==
    LET n == Len(y)
        xy == [i \in 1..n |-> (i - 1) * y[i]]
        x == [i \in 1..n |-> i - 1]
        xx == [i \in 1..n |-> (i - 1) * (i - 1)]
        num == n * SumSeq(xy) - SumSeq(x) * SumSeq(y)
        den == n * SumSeq(xx) - SumSeq(x) * SumSeq(x)
    IN  [value |-> Ratio(num, den), eps |-> IF num = 0 THEN eps ELSE 0]

\* slope > 0 and slope < 0 on such a float
Positive(slope) == slope.value.num > 0 \/ (slope.value.num = 0 /\ slope.eps > 0)
Negative(slope) == slope.value.num < 0 \/ (slope.value.num = 0 /\ slope.eps < 0)

ExactZero == [value |-> Zero, eps |-> 0]

Residues == {-1, 0, 1}

\* get_bandwidth_trend with the guard "fewer than 1 point".
get_bandwidth_trend_guard_one(ip, eps) ==
    LET data == get(bandwidth_data, ip)
        sent_data == data.sent
    IN  IF Len(sent_data) < 1
        THEN [trend |-> "insufficient_data", slope |-> ExactZero]
        ELSE IF Len(sent_data) > 1
             THEN LET slope == polyfit_slope(sent_data, eps)
                  IN  [trend |-> IF Positive(slope) THEN "increasing"
                                 ELSE IF Negative(slope) THEN "decreasing"
                                 ELSE "stable",
                       slope |-> slope]
             ELSE [trend |-> "stable", slope |-> ExactZero]

get_bandwidth_trend(ip, eps) ==
    LET data == get(bandwidth_data, ip)
        sent_data == data.sent
    IN  IF Len(sent_data) < 2
        THEN [trend |-> "insufficient_data", slope |-> ExactZero]
        ELSE IF Len(sent_data) > 1
             THEN LET slope == polyfit_slope(sent_data, eps)
                  IN  [trend |-> IF Positive(slope) THEN "increasing"
                                 ELSE IF Negative(slope) THEN "decreasing"
                                 ELSE "stable",
                       slope |-> slope]
             ELSE [trend |-> "stable", slope |-> ExactZero]

(***************************************************************************)
(* SecurityAlertSystem.                                                    *)
(***************************************************************************)
AlertKinds ==
    {"HIGH_BANDWIDTH_OUT", "HIGH_BANDWIDTH_IN", "SUSPICIOUS_PACKETS",
     "RAPID_CONNECTIONS", "PORT_SCAN"}

\* severity_map.get(alert_type, 'LOW')
get_alert_severity(alert_type) ==
    IF alert_type = "HIGH_BANDWIDTH_OUT" THEN "MEDIUM"
    ELSE IF alert_type = "HIGH_BANDWIDTH_IN" THEN "MEDIUM"
    ELSE IF alert_type = "SUSPICIOUS_PACKETS" THEN "HIGH"
    ELSE IF alert_type = "RAPID_CONNECTIONS" THEN "HIGH"
    ELSE "LOW"

\* create_alert on a ring without a maxlen (a list).
create_alert_unbounded(ring, ip, alert_type, message) ==
    Append(ring,
           [ip_address |-> ip, type |-> alert_type, message |-> message,
            severity |-> get_alert_severity(alert_type)])

\* create_alert(ip, type, message) on the ring ring; the message is
\* represented by the number it quotes.
create_alert(ring, ip, alert_type, message) ==
    dequeAppend(ring,
                [ip_address |-> ip, type |-> alert_type, message |-> message,
                 severity |-> get_alert_severity(alert_type)],
                AlertsMaxLen)

\* check_one with the three checks chained by elif.
check_one_elif(ring, ip) ==
    LET bw == get(bandwidth_data, ip)
        pk == get(packet_data, ip)
    IN  IF bw.sent # <<>> /\ MaxSeq(bw.sent) > HighBandwidth
        THEN create_alert(ring, ip, "HIGH_BANDWIDTH_OUT", MaxSeq(bw.sent))
        ELSE IF bw.received # <<>> /\ MaxSeq(bw.received) > HighBandwidth
        THEN create_alert(ring, ip, "HIGH_BANDWIDTH_IN", MaxSeq(bw.received))
        ELSE IF pk.sent # <<>> /\ MaxSeq(pk.sent) > SuspiciousPackets
        THEN create_alert(ring, ip, "SUSPICIOUS_PACKETS", MaxSeq(pk.sent))
        ELSE ring

\* The body of the for loop of check_for_anomalies for one id.
check_one(ring, ip) ==
    LET bw == get(bandwidth_data, ip)
        pk == get(packet_data, ip)
        r1 == IF bw.sent # <<>> /\ MaxSeq(bw.sent) > HighBandwidth
              THEN create_alert(ring, ip, "HIGH_BANDWIDTH_OUT", MaxSeq(bw.sent))
              ELSE ring
        r2 == IF bw.received # <<>> /\ MaxSeq(bw.received) > HighBandwidth
              THEN create_alert(r1, ip, "HIGH_BANDWIDTH_IN", MaxSeq(bw.received))
              ELSE r1
        r3 == IF pk.sent # <<>> /\ MaxSeq(pk.sent) > SuspiciousPackets
              THEN create_alert(r2, ip, "SUSPICIOUS_PACKETS", MaxSeq(pk.sent))
              ELSE r2
    IN  r3

RECURSIVE check_all(_, _)
\* for ip in self.monitor.monitored_ips, in the order the set yields them
check_all(ring, order) ==
    IF order = <<>> THEN ring
    ELSE check_all(check_one(ring, Head(order)), Tail(order))


(***************************************************************************)
(* CyberSecurityMonitorGUI: the handlers, run by the GUI thread one at a   *)
(* time (gpc = "idle" between handlers).                                   *)
(***************************************************************************)
\* add_ip(): the text of the entry field, stripped; an empty text is only
\* warned about; a text the registry accepts gets one more listbox row.
add_ip(text) ==
    LET ip == strip(text)
    IN  /\ gpc = "idle"
        /\ IF ~NonEmpty(ip)
           THEN UNCHANGED <<monitored_ips, ip_listbox>>
           ELSE LET call == add_ip_to_monitor(monitored_ips, ip)
                IN  /\ monitored_ips' = call.monitored_ips
                    /\ IF call.result
                       THEN /\ Len(ip_listbox) < MaxListbox
                            /\ ip_listbox' = Append(ip_listbox, ip)
                       ELSE ip_listbox' = ip_listbox
        /\ UNCHANGED <<monitoring, bandwidth_data, packet_data, data_queue, db_log>>
        /\ UNCHANGED <<ret, loops, monitoring_active, gpc, giter, gdoc, export_file>>
        /\ UNCHANGED <<stats, table, alerts, history>>

\* remove_ip() that also deletes the windows of the id it unregisters.
remove_ip_dropping_windows(index) ==
    /\ gpc = "idle"
    /\ IF index = 0
       THEN UNCHANGED <<monitored_ips, ip_listbox, bandwidth_data, packet_data>>
       ELSE /\ monitored_ips' = remove_ip_from_monitor(monitored_ips, ip_listbox[index])
            /\ ip_listbox' = [i \in 1..(Len(ip_listbox) - 1) |->
                                 IF i < index THEN ip_listbox[i] ELSE ip_listbox[i + 1]]
            /\ bandwidth_data' = [k \in DOMAIN bandwidth_data \ {ip_listbox[index]} |->
                                     bandwidth_data[k]]
            /\ packet_data' = [k \in DOMAIN packet_data \ {ip_listbox[index]} |->
                                  packet_data[k]]
    /\ UNCHANGED <<monitoring, data_queue, db_log>>
    /\ UNCHANGED <<ret, loops, monitoring_active, gpc, giter, gdoc, export_file>>
    /\ UNCHANGED <<stats, table, alerts, history>>

\* remove_ip(): the selected row (index 0: no row selected, a warning only)
\* is unregistered and deleted.
remove_ip(index) ==
    /\ gpc = "idle"
    /\ IF index = 0
       THEN UNCHANGED <<monitored_ips, ip_listbox>>
       ELSE /\ monitored_ips' = remove_ip_from_monitor(monitored_ips, ip_listbox[index])
            /\ ip_listbox' = [i \in 1..(Len(ip_listbox) - 1) |->
                                 IF i < index THEN ip_listbox[i] ELSE ip_listbox[i + 1]]
    /\ UNCHANGED <<monitoring, bandwidth_data, packet_data, data_queue, db_log>>
    /\ UNCHANGED <<ret, loops, monitoring_active, gpc, giter, gdoc, export_file>>
    /\ UNCHANGED <<stats, table, alerts, history>>

\* toggle_monitoring() without the test of the registry before the start.
toggle_monitoring_unchecked ==
    /\ gpc = "idle"
    /\ IF ~monitoring_active
       THEN /\ start_monitoring
            /\ monitoring_active' = TRUE
       ELSE /\ stop_monitoring
            /\ monitoring_active' = FALSE
    /\ UNCHANGED <<monitored_ips, bandwidth_data, packet_data, data_queue, db_log>>
    /\ UNCHANGED <<ret, iter, cur, ip_listbox, gpc, giter, gdoc, export_file>>
    /\ UNCHANGED <<stats, table, alerts, history>>

\* toggle_monitoring(): start (refused with a warning while nothing is
\* registered) or stop, by the GUI's own flag.
toggle_monitoring ==
    /\ gpc = "idle"
    /\ IF ~monitoring_active
       THEN IF monitored_ips = {}
            THEN UNCHANGED <<monitoring, pc, monitoring_active>>
            ELSE /\ start_monitoring
                 /\ monitoring_active' = TRUE
       ELSE /\ stop_monitoring
            /\ monitoring_active' = FALSE
    /\ UNCHANGED <<monitored_ips, bandwidth_data, packet_data, data_queue, db_log>>
    /\ UNCHANGED <<ret, iter, cur, ip_listbox, gpc, giter, gdoc, export_file>>
    /\ UNCHANGED <<stats, table, alerts, history>>

\* clear_data(), confirmed: bandwidth_data.clear() ...
clear_data ==
    /\ gpc = "idle"
    /\ bandwidth_data' = <<>>
    /\ hist_bw' = [ip \in ValidTexts |-> NewWindow]
    /\ gpc' = "clear_packets"
    /\ UNCHANGED <<monitoring, monitored_ips, packet_data, data_queue, db_log>>
    /\ UNCHANGED <<ret, loops, monitoring_active, ip_listbox, giter, gdoc, export_file>>
    /\ UNCHANGED <<stats, table, alerts, hist_pk, produced>>

\* ... then packet_data.clear(), and the table and the statistics text are
\* emptied.
clear_data_packets ==
    /\ gpc = "clear_packets"
    /\ packet_data' = <<>>
    /\ hist_pk' = [ip \in ValidTexts |-> NewWindow]
    /\ data_tree' = <<>>
    /\ stats' = <<>>
    /\ gpc' = "idle"
    /\ UNCHANGED <<recent_data, drained>>
    /\ UNCHANGED <<monitoring, monitored_ips, bandwidth_data, data_queue, db_log>>
    /\ UNCHANGED <<ret, loops, monitoring_active, ip_listbox, giter, gdoc, export_file>>
    /\ UNCHANGED <<alerts, hist_bw, produced>>

(***************************************************************************)
(* export_data(), one action per access to the window maps.  Positions:    *)
(* "x_sent" .. "x_packets_received" (lines 760-763, with suffix "_new"     *)
(* while a default_factory runs), "dump" (lines 766-768).                  *)
(***************************************************************************)
ExportEntry == [bandwidth_sent |-> <<>>, bandwidth_received |-> <<>>,
                packets_sent |-> <<>>, packets_received |-> <<>>]

\* export_data refusing to export nothing: an empty registry raises and
\* the except clause reports the error.
export_begin_refusing_empty ==
    /\ gpc = "idle"
    /\ IF monitored_ips = {}
       THEN /\ export_file' = [status |-> "error", doc |-> <<>>]
            /\ UNCHANGED <<giter, gpc>>
       ELSE /\ \E order \in Orders(monitored_ips) :
                 /\ giter' = order
                 /\ gpc' = "x_sent"
            /\ export_file' = export_file
    /\ gdoc' = <<>>
    /\ UNCHANGED <<core, ret, loops, monitoring_active, ip_listbox>>
    /\ UNCHANGED <<stats, table, alerts, history>>

\* export_data = {}; for ip in self.network_monitor.monitored_ips:
export_begin ==
    /\ gpc = "idle"
    /\ \E order \in Orders(monitored_ips) :
        /\ giter' = order
        /\ gpc' = IF order = <<>> THEN "dump" ELSE "x_sent"
    /\ gdoc' = <<>>
    /\ UNCHANGED <<core, ret, loops, monitoring_active, ip_listbox, export_file>>
    /\ UNCHANGED <<stats, table, alerts, history>>

\* list(self.network_monitor.bandwidth_data[ip]["sent"]): the subscript of
\* a defaultdict; a missing key sends the thread into the factory.
export_sent ==
    /\ gpc = "x_sent"
    /\ IF Head(giter) \in DOMAIN bandwidth_data
       THEN /\ gdoc' = SetItem(gdoc, Head(giter),
                         [ExportEntry EXCEPT !.bandwidth_sent = bandwidth_data[Head(giter)].sent])
            /\ gpc' = "x_received"
       ELSE /\ gpc' = "x_sent_new"
            /\ gdoc' = gdoc
    /\ UNCHANGED <<core, ret, loops, monitoring_active, ip_listbox, giter, export_file>>
    /\ UNCHANGED <<stats, table, alerts, history>>

\* The rest of defaultdict.__missing__: the new window is stored under the
\* key, whatever is there by now, and read.
export_sent_new ==
    /\ gpc = "x_sent_new"
    /\ bandwidth_data' = SetItem(bandwidth_data, Head(giter), NewWindow)
    /\ gdoc' = SetItem(gdoc, Head(giter), ExportEntry)
    /\ gpc' = "x_received"
    /\ UNCHANGED <<monitoring, monitored_ips, packet_data, data_queue, db_log>>
    /\ UNCHANGED <<ret, loops, monitoring_active, ip_listbox, giter, export_file>>
    /\ UNCHANGED <<stats, table, alerts, history>>

\* list(self.network_monitor.bandwidth_data[ip]["received"]): the key is
\* present, only this thread removes keys.
export_received ==
    /\ gpc = "x_received"
    /\ gdoc' = [gdoc EXCEPT ![Head(giter)].bandwidth_received =
                                bandwidth_data[Head(giter)].received]
    /\ gpc' = "x_packets_sent"
    /\ UNCHANGED <<core, ret, loops, monitoring_active, ip_listbox, giter, export_file>>
    /\ UNCHANGED <<stats, table, alerts, history>>

export_packets_sent ==
    /\ gpc = "x_packets_sent"
    /\ IF Head(giter) \in DOMAIN packet_data
       THEN /\ gdoc' = [gdoc EXCEPT ![Head(giter)].packets_sent =
                                       packet_data[Head(giter)].sent]
            /\ gpc' = "x_packets_received"
       ELSE /\ gpc' = "x_packets_sent_new"
            /\ gdoc' = gdoc
    /\ UNCHANGED <<core, ret, loops, monitoring_active, ip_listbox, giter, export_file>>
    /\ UNCHANGED <<stats, table, alerts, history>>

export_packets_sent_new ==
    /\ gpc = "x_packets_sent_new"
    /\ packet_data' = SetItem(packet_data, Head(giter), NewWindow)
    /\ gpc' = "x_packets_received"
    /\ UNCHANGED <<monitoring, monitored_ips, bandwidth_data, data_queue, db_log>>
    /\ UNCHANGED <<ret, loops, monitoring_active, ip_listbox, giter, gdoc, export_file>>
    /\ UNCHANGED <<stats, table, alerts, history>>

\* list(self.network_monitor.packet_data[ip]["received"]); export_data[ip]
\* is complete and the for loop goes on.
export_packets_received ==
    /\ gpc = "x_packets_received"
    /\ gdoc' = [gdoc EXCEPT ![Head(giter)].packets_received =
                                packet_data[Head(giter)].received]
    /\ giter' = Tail(giter)
    /\ gpc' = IF Tail(giter) = <<>> THEN "dump" ELSE "x_sent"
    /\ UNCHANGED <<core, ret, loops, monitoring_active, ip_listbox, export_file>>
    /\ UNCHANGED <<stats, table, alerts, history>>

\* open(filename, 'w') and json.dump: the file is written (success path),
\* or an OSError sends the handler to its except clause (error path).
export_dump ==
    /\ gpc = "dump"
    /\ \E ok \in BOOLEAN :
        export_file' = IF ok THEN [status |-> "success", doc |-> gdoc]
                             ELSE [status |-> "error", doc |-> <<>>]
    /\ gdoc' = <<>>
    /\ gpc' = "idle"
    /\ UNCHANGED <<core, ret, loops, monitoring_active, ip_listbox, giter>>
    /\ UNCHANGED <<stats, table, alerts, history>>

export_data ==
    \/ export_begin
    \/ export_sent
    \/ export_sent_new
    \/ export_received
    \/ export_packets_sent
    \/ export_packets_sent_new
    \/ export_packets_received
    \/ export_dump

(***************************************************************************)
(* The periodic refresh.                                                   *)
(***************************************************************************)
\* update_statistics_display(): the four analyzer results of every
\* registered id.
update_statistics_display ==
    \E eps \in [monitored_ips -> Residues] :
        stats' = [ip \in monitored_ips |->
                     [total |-> get_total_bandwidth(ip),
                      average |-> get_average_bandwidth(ip),
                      peak |-> get_peak_bandwidth(ip),
                      trend |-> get_bandwidth_trend(ip, eps[ip])]]

\* update_gui_data(), three seconds after the last refresh:
\* update_statistics_display(), then update_data_table() up to its while
\* loop: every row of the table is deleted and recent_data = [].
update_gui_data_begin ==
    /\ gpc = "idle"
    /\ update_statistics_display
    /\ data_tree' = <<>>
    /\ recent_data' = <<>>
    /\ gpc' = "drain"
    /\ UNCHANGED <<core, ret, loops, monitoring_active, ip_listbox, giter, gdoc, export_file>>
    /\ UNCHANGED <<drained, alerts, history>>

\* update_data_table() taking a sample and dropping it: get_nowait()
\* without the append to recent_data.
update_data_table_get_dropping ==
    /\ gpc = "drain"
    /\ data_queue # <<>>
    /\ data_queue' = Tail(data_queue)
    /\ drained' = Append(drained, Head(data_queue))
    /\ UNCHANGED <<monitoring, monitored_ips, bandwidth_data, packet_data, db_log>>
    /\ UNCHANGED <<ret, loops, monitoring_active, ip_listbox, gpc, giter, gdoc, export_file>>
    /\ UNCHANGED <<stats, data_tree, recent_data, alerts, history>>

\* One turn of the while loop: the queue is not empty, get_nowait() takes
\* its oldest sample and recent_data.append(data) keeps it.  The GUI thread
\* is the only consumer, so queue.Empty is never raised.
update_data_table_get ==
    /\ gpc = "drain"
    /\ data_queue # <<>>
    /\ data_queue' = Tail(data_queue)
    /\ recent_data' = Append(recent_data, Head(data_queue))
    /\ drained' = Append(drained, Head(data_queue))
    /\ UNCHANGED <<monitoring, monitored_ips, bandwidth_data, packet_data, db_log>>
    /\ UNCHANGED <<ret, loops, monitoring_active, ip_listbox, gpc, giter, gdoc, export_file>>
    /\ UNCHANGED <<stats, data_tree, alerts, history>>

\* The queue is found empty: the while loop ends and each of the last 100
\* samples of recent_data is inserted at the top of the table.
update_data_table_insert ==
    /\ gpc = "drain"
    /\ data_queue = <<>>
    /\ data_tree' = Reverse(LastN(recent_data, TableRows))
    /\ recent_data' = <<>>
    /\ gpc' = "idle"
    /\ UNCHANGED <<core, ret, loops, monitoring_active, ip_listbox, giter, gdoc, export_file>>
    /\ UNCHANGED <<stats, drained, alerts, history>>

update_gui_data ==
    \/ update_gui_data_begin
    \/ update_data_table_get
    \/ update_data_table_insert

(***************************************************************************)
(* The application: the GUI thread and the sampling threads.               *)
(***************************************************************************)
\* The commands that drive the core.
Commands ==
    \/ \E text \in GuiTexts : add_ip(text)
    \/ \E index \in 0..Len(ip_listbox) : remove_ip(index)
    \/ toggle_monitoring
    \/ clear_data
    \/ clear_data_packets

Sampling == \E t \in Threads : _monitor_loop(t)

\* The whole application.
Next ==
    \/ Commands
    \/ export_data
    \/ update_gui_data
    \/ Sampling

Spec == Init /\ [][Next]_vars

\* No sampling thread of an earlier start is still alive.
NoLoopAlive == \A t \in Threads : pc[t] \in {"unborn", "done"}

\* The application while the user neither exports nor watches the display
\* and presses Start only after the loop of the previous run has exited:
\* every command against one sampling thread at a time.
NextMonitor ==
    \/ \E text \in GuiTexts : add_ip(text)
    \/ \E index \in 0..Len(ip_listbox) : remove_ip(index)
    \/ (toggle_monitoring /\ (monitoring_active \/ NoLoopAlive))
    \/ clear_data
    \/ clear_data_packets
    \/ Sampling

SpecMonitor == Init /\ [][NextMonitor]_vars

\* The sampling threads while the database accepts every row and no
\* handler removes a window: the window that line 212 (214) found or stored
\* is still there at line 213 (215), so the default_factory never runs for
\* the second field.
LoopSinkUp(t) ==
    \/ LoopWhile(t)
    \/ LoopCopy(t)
    \/ LoopSent(t)
    \/ LoopSentNew(t)
    \/ LoopReceived(t)
    \/ LoopPacketsSent(t)
    \/ LoopPacketsSentNew(t)
    \/ LoopPacketsReceived(t)
    \/ (LoopDb(t) /\ db_log' = Append(db_log, cur[t]))
    \/ LoopPut(t)
    \/ LoopSleep(t)

SamplingSinkUp == \E t \in Threads : LoopSinkUp(t)

\* The lifecycle: add, remove, Start and Stop pressed at any moment, so that
\* a Start can find the thread of the previous run still alive, against the
\* sampling threads, while the database accepts every row.
NextLifecycle ==
    \/ \E text \in GuiTexts : add_ip(text)
    \/ \E index \in 0..Len(ip_listbox) : remove_ip(index)
    \/ toggle_monitoring
    \/ SamplingSinkUp

SpecLifecycle == Init /\ [][NextLifecycle]_vars

\* The ticks: the lifecycle with Start pressed only once the loop of the
\* previous run has exited, and with every sampling thread scheduled again
\* and again: a thread that can take a step, the end of time.sleep(2)
\* included, is not left waiting for ever.
NextTicks ==
    \/ \E text \in GuiTexts : add_ip(text)
    \/ \E index \in 0..Len(ip_listbox) : remove_ip(index)
    \/ (toggle_monitoring /\ (monitoring_active \/ NoLoopAlive))
    \/ SamplingSinkUp

SpecTicksFair ==
    /\ Init
    /\ [][NextTicks]_vars
    /\ \A t \in Threads : WF_vars(LoopSinkUp(t))


(***************************************************************************)
(* The registry exercised alone: add_ip_to_monitor and                     *)
(* remove_ip_from_monitor called directly with any text.                   *)
(***************************************************************************)
register(s) ==
    /\ monitored_ips' = add_ip_to_monitor(monitored_ips, s).monitored_ips
    /\ ret' = IF add_ip_to_monitor(monitored_ips, s).result THEN "True" ELSE "False"
    /\ UNCHANGED <<monitoring, bandwidth_data, packet_data, data_queue, db_log>>
    /\ UNCHANGED <<loops, gui, alerts, history>>

unregister(s) ==
    /\ monitored_ips' = remove_ip_from_monitor(monitored_ips, s)
    /\ UNCHANGED <<monitoring, bandwidth_data, packet_data, data_queue, db_log>>
    /\ UNCHANGED <<ret, loops, gui, alerts, history>>

NextRegistry ==
    \/ \E s \in ApiTexts : register(s)
    \/ \E s \in ApiTexts : unregister(s)

SpecRegistry == Init /\ [][NextRegistry]_vars

(***************************************************************************)
(* The analyzer exercised alone: update_statistics_display over windows    *)
(* of any content up to a length.                                          *)
(***************************************************************************)
MaxTrendLen == 4

TrendVals == {10, 20, 30, 40}

SeqsUpTo(S, n) == UNION {[1..k -> S] : k \in 0..n}

InitAnalyzer ==
    /\ Constructed
    /\ monitored_ips = {IpA, IpB}
    /\ bandwidth_data \in
          {<<>>} \cup
          {[ip \in {IpA} |-> [sent |-> ws, received |-> wr]] :
              ws \in SeqsUpTo(TrendVals, MaxTrendLen), wr \in {<<>>, <<7, 9>>}}
    /\ packet_data = <<>>

show_statistics ==
    /\ update_statistics_display
    /\ UNCHANGED <<core, ret, loops, alerts, history>>
    /\ UNCHANGED <<monitoring_active, ip_listbox, gpc, giter, gdoc, export_file, table>>

NextAnalyzer == show_statistics

SpecAnalyzer == InitAnalyzer /\ [][NextAnalyzer]_vars

(***************************************************************************)
(* The alert system exercised alone: check_for_anomalies and create_alert  *)
(* over windows around the thresholds.                                     *)
(***************************************************************************)
MaxAlerts == 2

AlertByteWindows ==
    {<<>>, <<1024>>, <<HighBandwidth>>, <<2000000>>, <<1024, 2000000>>, <<2000000, 1024>>}

AlertPacketWindows ==
    {<<>>, <<10>>, <<SuspiciousPackets>>, <<1001>>, <<10, 1001>>}

InitAlerts ==
    /\ Constructed
    /\ monitored_ips \in {{IpA}, {IpA, IpB}}
    /\ bandwidth_data \in
          {[ip \in {IpA, IpB} |->
               IF ip = IpA THEN [sent |-> ws, received |-> wr]
               ELSE [sent |-> <<2000000>>, received |-> <<>>]] :
              ws \in AlertByteWindows, wr \in AlertByteWindows}
    /\ packet_data \in
          {[ip \in {IpA} |-> [sent |-> ps, received |-> <<15>>]] : ps \in AlertPacketWindows}

\* check_for_anomalies()
check_for_anomalies ==
    /\ Len(alerts) < MaxAlerts
    /\ \E order \in Orders(monitored_ips) : alerts' = check_all(alerts, order)
    /\ UNCHANGED <<core, ret, loops, gui, history>>

\* create_alert() called directly with any kind
raise_alert(ip, alert_type) ==
    /\ Len(alerts) < MaxAlerts
    /\ alerts' = create_alert(alerts, ip, alert_type, 0)
    /\ UNCHANGED <<core, ret, loops, gui, history>>

NextAlerts ==
    \/ check_for_anomalies
    \/ \E ip \in monitored_ips, alert_type \in AlertKinds : raise_alert(ip, alert_type)

SpecAlerts == InitAlerts /\ [][NextAlerts]_vars

(***************************************************************************)
(* The analyzer called directly: the four functions of BandwidthAnalyzer   *)
(* for any id, registered or not, with or without a window.                *)
(***************************************************************************)
ReadIds == {IpA, IpB}

\* The ids the functions are called for; IpC is never registered and never
\* has a window.
AskedIds == {IpA, IpB, IpC}

ReadByteWindows ==
    {NewWindow, [sent |-> <<1025>>, received |-> <<2049>>],
     [sent |-> <<1025, 1026>>, received |-> <<2049, 2050>>]}

ReadPacketWindows == {NewWindow, [sent |-> <<11>>, received |-> <<16>>]}

InitReads ==
    /\ Constructed
    /\ monitored_ips \in SUBSET ReadIds
    /\ bandwidth_data \in UNION {[D -> ReadByteWindows] : D \in SUBSET ReadIds}
    /\ packet_data \in UNION {[D -> ReadPacketWindows] : D \in SUBSET ReadIds}

\* The four functions called with bandwidth_data[ip] in place of
\* bandwidth_data.get(ip, ...): the defaultdict stores a window for a
\* missing id.
analyze_subscripting(ip) ==
    /\ \E eps \in Residues :
          stats' = [x \in {ip} |->
                       [total |-> get_total_bandwidth(ip),
                        average |-> get_average_bandwidth(ip),
                        peak |-> get_peak_bandwidth(ip),
                        trend |-> get_bandwidth_trend(ip, eps)]]
    /\ bandwidth_data' = IF ip \in DOMAIN bandwidth_data THEN bandwidth_data
                         ELSE SetItem(bandwidth_data, ip, NewWindow)
    /\ UNCHANGED <<monitoring, monitored_ips, packet_data, data_queue, db_log>>
    /\ UNCHANGED <<ret, loops, alerts, history>>
    /\ UNCHANGED <<monitoring_active, ip_listbox, gpc, giter, gdoc, export_file, table>>

\* get_total_bandwidth, get_average_bandwidth, get_peak_bandwidth and
\* get_bandwidth_trend called for ip; stats keeps what they returned.
analyze(ip) ==
    /\ \E eps \in Residues :
          stats' = [x \in {ip} |->
                       [total |-> get_total_bandwidth(ip),
                        average |-> get_average_bandwidth(ip),
                        peak |-> get_peak_bandwidth(ip),
                        trend |-> get_bandwidth_trend(ip, eps)]]
    /\ UNCHANGED <<core, ret, loops, alerts, history>>
    /\ UNCHANGED <<monitoring_active, ip_listbox, gpc, giter, gdoc, export_file, table>>

NextReads == \E ip \in AskedIds : analyze(ip)

SpecReads == InitReads /\ [][NextReads]_vars

(***************************************************************************)
(* The alert ring at its capacity: create_alert called on a ring that      *)
(* holds 99 or 100 earlier alerts, numbered by their messages.             *)
(***************************************************************************)
\* The ring after n calls of create_alert, the i-th with message i.
EarlierAlerts(n) ==
    [i \in 1..n |-> [ip_address |-> IpA, type |-> "HIGH_BANDWIDTH_OUT", message |-> i,
                     severity |-> get_alert_severity("HIGH_BANDWIDTH_OUT")]]

InitAlertRing ==
    /\ monitoring = FALSE
    /\ monitored_ips = {IpA, IpB}
    /\ bandwidth_data = <<>>
    /\ packet_data = <<>>
    /\ data_queue = <<>>
    /\ db_log = <<>>
    /\ ret = "none"
    /\ pc = [t \in Threads |-> "unborn"]
    /\ iter = [t \in Threads |-> <<>>]
    /\ cur = [t \in Threads |-> NoSample]
    /\ monitoring_active = FALSE
    /\ ip_listbox = <<>>
    /\ gpc = "idle"
    /\ giter = <<>>
    /\ gdoc = <<>>
    /\ export_file = NoFile
    /\ stats = <<>>
    /\ data_tree = <<>>
    /\ recent_data = <<>>
    /\ drained = <<>>
    /\ alerts \in {EarlierAlerts(AlertsMaxLen - 1), EarlierAlerts(AlertsMaxLen)}
    /\ hist_bw = [ip \in ValidTexts |-> NewWindow]
    /\ hist_pk = [ip \in ValidTexts |-> NewWindow]
    /\ produced = 0

\* create_alert() called with the next message number, MaxAlerts times at
\* most past the capacity.
next_alert(ip, alert_type) ==
    /\ alerts[Len(alerts)].message < AlertsMaxLen + MaxAlerts
    /\ alerts' = create_alert(alerts, ip, alert_type, alerts[Len(alerts)].message + 1)
    /\ UNCHANGED <<core, ret, loops, gui, history>>

NextAlertRing == \E ip \in monitored_ips, alert_type \in AlertKinds : next_alert(ip, alert_type)

SpecAlertRing == InitAlertRing /\ [][NextAlertRing]_vars

(***************************************************************************)
(* export_data exercised alone: Export Data pressed over any registry of   *)
(* up to two ids and windows that hold no sample or one, present or not.   *)
(***************************************************************************)
ExportIds == {IpA, IpB}

ExportByteWindows == {NewWindow, [sent |-> <<1025>>, received |-> <<2049>>]}

ExportPacketWindows == {NewWindow, [sent |-> <<11>>, received |-> <<16>>]}

\* The dicts with some ids of ids as keys and windows of W as values.
WindowMaps(ids, W) == UNION {[D -> W] : D \in SUBSET ids}

InitExport ==
    /\ Constructed
    /\ monitored_ips \in SUBSET ExportIds
    /\ bandwidth_data \in WindowMaps(ExportIds, ExportByteWindows)
    /\ packet_data \in WindowMaps(ExportIds, ExportPacketWindows)

NextExport == export_data

SpecExport == InitExport /\ [][NextExport]_vars


(***************************************************************************)
(* The delivery queue: the refresh of the GUI thread draining the queue    *)
(* while one sampling thread runs, over a queue that holds up to 101       *)
(* samples of earlier passes (the windows were cleared since).             *)
(***************************************************************************)
\* The queue after n earlier draws, the oldest first.
EarlierSamples(n) ==
    [i \in 1..n |->
        CHOOSE smp \in simulate_ip_traffic(IF i % 2 = 1 THEN IpA ELSE IpB, i - n) : TRUE]

InitDrain ==
    /\ monitoring = TRUE
    /\ monitored_ips \in {{IpA}, {IpA, IpB}}
    /\ bandwidth_data = <<>>
    /\ packet_data = <<>>
    /\ data_queue \in {EarlierSamples(n) : n \in {0, TableRows - 1, TableRows, TableRows + 1}}
    /\ db_log = data_queue
    /\ ret = "none"
    /\ pc = [t \in Threads |-> IF t = 1 THEN "while" ELSE "unborn"]
    /\ iter = [t \in Threads |-> <<>>]
    /\ cur = [t \in Threads |-> NoSample]
    /\ monitoring_active = TRUE
    /\ ip_listbox = IF monitored_ips = {IpA} THEN <<IpA>> ELSE <<IpA, IpB>>
    /\ gpc = "idle"
    /\ giter = <<>>
    /\ gdoc = <<>>
    /\ export_file = NoFile
    /\ stats = <<>>
    /\ data_tree = <<>>
    /\ recent_data = <<>>
    /\ drained = <<>>
    /\ alerts = <<>>
    /\ hist_bw = [ip \in ValidTexts |-> NewWindow]
    /\ hist_pk = [ip \in ValidTexts |-> NewWindow]
    /\ produced = 0

\* The refresh against the sampling thread; Stop may be pressed.
NextDrain ==
    \/ update_gui_data
    \/ SamplingSinkUp
    \/ (toggle_monitoring /\ monitoring_active)

SpecDrain == InitDrain /\ [][NextDrain]_vars

(***************************************************************************)
(* Properties of the lifecycle and of the sampling threads (SpecLifecycle, *)
(* SpecMonitor).                                                           *)
(***************************************************************************)
\* The positions of a thread between a passed test of the flag and the end
\* of the pass.
InPass ==
    {"copy", "sent", "sent_new", "received", "received_new", "packets_sent",
     "packets_sent_new", "packets_received", "packets_received_new", "db", "put"}

\* Some field of history h2 is longer than in history h.
Grew(h, h2) ==
    /\ h2 # h
    /\ \E ip \in ValidTexts : \E f \in {"sent", "received"} : Len(h2[ip][f]) > Len(h[ip][f])

\* The step appends to a window, to the sink or to the delivery queue.
Appends ==
    \/ Grew(hist_bw, hist_bw')
    \/ Grew(hist_pk, hist_pk')
    \/ Len(db_log') > Len(db_log)
    \/ Len(data_queue') > Len(data_queue)

\* C1, as stated: once stop has completed (the lifecycle is Idle) no sample
\* is appended to a window, to the persistence sink or to the delivery
\* queue until the next start.
C1_NoAppendWhileIdle == [][~monitoring => ~Appends]_vars

\* C1, amended: once stop has completed no sampling loop begins a pass until
\* the next start (a loop that tests the flag while Idle exits), and every
\* append to a window, the sink or the queue is the step of a loop that is
\* inside a pass, so the only appends while Idle are those of a pass whose
\* test of the flag came before the stop.
C1_NoPassBeginsWhileIdle ==
    [][/\ ~monitoring => \A t \in Threads : pc[t] \notin InPass => pc'[t] \notin InPass
       /\ Appends => \E t \in Threads : pc[t] \in InPass /\ pc'[t] # pc[t]]_vars

\* Stop has completed while a loop is still inside a pass: one sample is
\* delivered and the loop is appending the next one.
C1_Witness ==
    /\ ~monitoring
    /\ ~monitoring_active
    /\ produced = 2
    /\ Len(data_queue) = 1
    /\ \E t \in Threads : pc[t] \in InPass \ {"copy"}

\* C2: a start request in Idle with an empty registry is rejected: the
\* lifecycle stays Idle, no loop is started and nothing else changes; a
\* start request with a registered target moves Idle to Running and a stop
\* request in Running moves it back to Idle.
C2_StartStop ==
    /\ monitoring = monitoring_active
    /\ (gpc = "idle" /\ ~monitoring_active /\ monitored_ips = {}) =>
          /\ ENABLED (toggle_monitoring /\ UNCHANGED vars)
          /\ ~ENABLED (toggle_monitoring /\ ~UNCHANGED vars)
    /\ (gpc = "idle" /\ ~monitoring_active /\ monitored_ips # {}
           /\ \E t \in Threads : pc[t] = "unborn") =>
          /\ ENABLED (toggle_monitoring /\ monitoring' /\ monitoring_active')
          /\ ~ENABLED (toggle_monitoring /\ ~(monitoring' /\ monitoring_active'))
    /\ (gpc = "idle" /\ monitoring_active) =>
          /\ ENABLED (toggle_monitoring /\ ~monitoring' /\ ~monitoring_active')
          /\ ~ENABLED (toggle_monitoring /\ (monitoring' \/ monitoring_active'))

\* Idle with an empty registry again after a run: a loop was started and
\* stopped and the last target was removed.
C2_Witness ==
    /\ ~monitoring_active
    /\ monitored_ips = {}
    /\ pc[1] # "unborn"
    /\ produced > 0

\* C3: the sampling loop is the only writer of the windows: no step of the
\* presentation side modifies a window or the set of windows.
C3_LoopSoleWriter ==
    [][(bandwidth_data' # bandwidth_data \/ packet_data' # packet_data) =>
          \E t \in Threads : pc'[t] # pc[t]]_vars

\* C4: at most one sampling loop is active at any time: no two loops are
\* inside a pass at once.
C4_AtMostOneLoop ==
    \A t, u \in Threads : (pc[t] \in InPass /\ pc[u] \in InPass) => t = u

\* C5: every window has at most 100 elements and holds the last
\* min(N, 100) of the N values appended for its target since the last
\* clear, in arrival order.
C5_WindowIsRecentSamples ==
    \A ip \in ValidTexts : \A f \in {"sent", "received"} :
        /\ Len(get(bandwidth_data, ip)[f]) <= WindowMaxLen
        /\ Len(get(packet_data, ip)[f]) <= WindowMaxLen
        /\ get(bandwidth_data, ip)[f] = LastN(hist_bw[ip][f], WindowMaxLen)
        /\ get(packet_data, ip)[f] = LastN(hist_pk[ip][f], WindowMaxLen)

\* C11: a failing sink append is swallowed: the step that fails leaves the
\* windows, the lifecycle and the rest of the pass as they are, the sample
\* is put on the delivery queue all the same, and the loop goes on to the
\* next target of the pass.
C11_SinkFailureSwallowed ==
    [][\A t \in Threads :
          /\ (pc[t] = "db" /\ pc'[t] # "db") =>
                /\ pc'[t] = "put"
                /\ db_log' \in {db_log, Append(db_log, cur[t])}
                /\ UNCHANGED <<bandwidth_data, packet_data, data_queue>>
                /\ UNCHANGED <<monitoring, monitoring_active, iter, cur>>
          /\ (pc[t] = "put" /\ pc'[t] # "put") =>
                /\ data_queue' = Append(data_queue, cur[t])
                /\ UNCHANGED <<bandwidth_data, packet_data, monitoring, monitoring_active>>
                /\ IF iter[t] = <<>>
                   THEN pc'[t] = "sleep"
                   ELSE /\ pc'[t] = "sent"
                        /\ cur'[t].ip = Head(iter[t])
                        /\ iter'[t] = Tail(iter[t])]_vars

\* The sink refused the first sample of a pass: the sample is in its window
\* and on the queue, no row was written, the loop is at the second target
\* and the lifecycle is Running.
C11_Witness ==
    /\ monitoring
    /\ monitoring_active
    /\ db_log = <<>>
    /\ Len(data_queue) = 1
    /\ \E t \in Threads :
          /\ pc[t] = "sent"
          /\ cur[t].ip # data_queue[1].ip
          /\ data_queue[1].ip \in DOMAIN bandwidth_data
          /\ bandwidth_data[data_queue[1].ip].sent = <<data_queue[1].bytes_sent>>

\* C13: a stop issued during a pass does not interrupt it: the stop leaves
\* the position of every loop and the rest of its snapshot as they are, a
\* loop leaves a pass only when every id of the snapshot has been sampled,
\* and it exits only at the test of the flag, finding it lowered.
C13_StopNeverInterruptsPass ==
    [][/\ (monitoring /\ ~monitoring') => UNCHANGED <<pc, iter, cur>>
       /\ \A t \in Threads :
             /\ (pc[t] \in InPass /\ pc'[t] \notin InPass) =>
                   (pc'[t] = "sleep" /\ iter[t] = <<>> /\ pc[t] \in {"copy", "put"})
             /\ (pc[t] = "put" /\ pc'[t] # "put" /\ iter[t] # <<>>) =>
                   /\ pc'[t] = "sent"
                   /\ cur'[t].ip = Head(iter[t])
                   /\ iter'[t] = Tail(iter[t])
             /\ (iter'[t] # iter[t]) => pc[t] \in {"copy", "put"}
             /\ (pc[t] # "done" /\ pc'[t] = "done") => (pc[t] = "while" /\ ~monitoring)]_vars

\* Stop has completed while a loop is inside a pass with an id of its
\* snapshot still to sample.
C13_Witness ==
    /\ ~monitoring
    /\ \E t \in Threads : pc[t] \in InPass /\ iter[t] # <<>>

\* The step appends a value to a window of ip.
AppendsFor(ip) ==
    \E f \in {"sent", "received"} :
        \/ Len(hist_bw'[ip][f]) > Len(hist_bw[ip][f])
        \/ Len(hist_pk'[ip][f]) > Len(hist_pk[ip][f])

\* C14: every value appended to a window belongs to an id that is in the
\* registry at the moment of the append, so nothing is appended for an id
\* between its unregister and its next register.
C14_AppendsOnlyForRegistered ==
    [][\A ip \in ValidTexts : AppendsFor(ip) => ip \in monitored_ips]_vars

\* C16: register and unregister change nothing but membership of the
\* active set: a step that adds or removes a listbox row leaves the
\* windows, the queue, the sink and the lifecycle as they are; an added
\* row registers its id, a removed row unregisters its id, which leaves
\* the set as it is when the id is not in it, and the windows of an
\* unregistered id stay in place.
C16_RegistryFrame ==
    [][/\ (monitored_ips' # monitored_ips \/ ip_listbox' # ip_listbox) =>
             /\ UNCHANGED <<bandwidth_data, packet_data, data_queue, db_log>>
             /\ UNCHANGED <<monitoring, monitoring_active, pc>>
       /\ Len(ip_listbox') > Len(ip_listbox) =>
             monitored_ips' = monitored_ips \cup {ip_listbox'[Len(ip_listbox')]}
       /\ Len(ip_listbox') < Len(ip_listbox) =>
             \E index \in 1..Len(ip_listbox) :
                 /\ ip_listbox' = SubSeq(ip_listbox, 1, index - 1)
                                     \o SubSeq(ip_listbox, index + 1, Len(ip_listbox))
                 /\ monitored_ips' = monitored_ips \ {ip_listbox[index]}
                 /\ ip_listbox[index] \notin monitored_ips => monitored_ips' = monitored_ips
       /\ Len(ip_listbox') = Len(ip_listbox) => monitored_ips' = monitored_ips]_vars

\* An id with two listbox rows was sampled and one row removed: the id is
\* unregistered, its windows hold the sample, and the row that is left
\* names an id that is not registered.
C16_Witness ==
    /\ ip_listbox = <<IpA>>
    /\ monitored_ips = {}
    /\ IpA \in DOMAIN bandwidth_data
    /\ IpA \in DOMAIN packet_data
    /\ bandwidth_data[IpA].sent # <<>>
    /\ packet_data[IpA].received # <<>>

\* The elements of a sequence.
Range(q) == {q[i] : i \in 1..Len(q)}

\* The positions that may follow position p of _monitor_loop.
Following(p) ==
    CASE p = "while" -> {"copy", "done"}
      [] p = "copy" -> {"sent", "sleep"}
      [] p = "sent" -> {"sent_new", "received"}
      [] p = "sent_new" -> {"received"}
      [] p = "received" -> {"received_new", "packets_sent"}
      [] p = "received_new" -> {"packets_sent"}
      [] p = "packets_sent" -> {"packets_sent_new", "packets_received"}
      [] p = "packets_sent_new" -> {"packets_received"}
      [] p = "packets_received" -> {"packets_received_new", "db"}
      [] p = "packets_received_new" -> {"db"}
      [] p = "db" -> {"put"}
      [] p = "put" -> {"sent", "sleep"}
      [] p = "sleep" -> {"while"}
      [] p = "unborn" -> {"while"}
      [] OTHER -> {}

\* Thread t moves on from position p and reaches position q.
Moves(t, p, q) == pc[t] \in p /\ pc'[t] \in q /\ pc'[t] # pc[t]

\* C18: each pass takes a snapshot of the registry and, for every id of the
\* snapshot, draws one sample and applies it in the order byte windows,
\* packet windows, sink, delivery queue, one id after the other; so every
\* sample on the delivery queue was appended to its windows and to the sink.
C18_PassOrder ==
    /\ [](\A i \in 1..Len(data_queue) :
             LET smp == data_queue[i]
             IN  /\ smp.bytes_sent \in Range(hist_bw[smp.ip].sent)
                 /\ smp.bytes_received \in Range(hist_bw[smp.ip].received)
                 /\ smp.packets_sent \in Range(hist_pk[smp.ip].sent)
                 /\ smp.packets_received \in Range(hist_pk[smp.ip].received)
                 /\ smp \in Range(db_log))
    /\ [][\A t \in Threads :
             /\ pc'[t] # pc[t] => pc'[t] \in Following(pc[t])
             /\ Moves(t, {"copy"}, {"sent"}) =>
                   /\ {cur'[t].ip} \cup Range(iter'[t]) = monitored_ips
                   /\ Len(iter'[t]) + 1 = Cardinality(monitored_ips)
             /\ Moves(t, {"copy"}, {"sleep"}) => monitored_ips = {}
             /\ Moves(t, {"put"}, {"sent"}) =>
                   (cur'[t].ip = Head(iter[t]) /\ iter'[t] = Tail(iter[t]))
             /\ Moves(t, {"put"}, {"sleep"}) => iter[t] = <<>>
             /\ pc[t] \notin {"copy", "put"} => (cur'[t] = cur[t] /\ iter'[t] = iter[t])
             /\ Moves(t, {"sent", "sent_new"}, {"received"}) =>
                   hist_bw' = [hist_bw EXCEPT ![cur[t].ip].sent = Append(@, cur[t].bytes_sent)]
             /\ Moves(t, {"received", "received_new"}, {"packets_sent"}) =>
                   hist_bw' = [hist_bw EXCEPT
                                  ![cur[t].ip].received = Append(@, cur[t].bytes_received)]
             /\ Moves(t, {"packets_sent", "packets_sent_new"}, {"packets_received"}) =>
                   hist_pk' = [hist_pk EXCEPT ![cur[t].ip].sent = Append(@, cur[t].packets_sent)]
             /\ Moves(t, {"packets_received", "packets_received_new"}, {"db"}) =>
                   hist_pk' = [hist_pk EXCEPT
                                  ![cur[t].ip].received = Append(@, cur[t].packets_received)]
             /\ Moves(t, {"db"}, {"put"}) => db_log' = Append(db_log, cur[t])
             /\ Moves(t, {"put"}, {"sent", "sleep"}) => data_queue' = Append(data_queue, cur[t])]_vars

\* One pass over two ids is over: both samples are in the sink and on the
\* queue in the order of the pass and the loop sleeps.
C18_Witness ==
    /\ Len(data_queue) = 2
    /\ data_queue[1].ip # data_queue[2].ip
    /\ db_log = data_queue
    /\ pc[1] = "sleep"
    /\ pc[2] = "unborn"
    /\ Len(hist_bw[data_queue[2].ip].sent) = 1
    /\ Len(hist_pk[data_queue[2].ip].received) = 1

\* The samples the model lets the loops draw are used up: the pass that
\* LoopCopy would begin does not fit.
BudgetSpent == produced + Pending + Cardinality(monitored_ips) > MaxSamples

\* C19: while the lifecycle stays Running and an id stays registered, a new
\* sample of the id is appended to its window again and again: from any
\* number n of appended samples the window gets to more than n, unless the
\* lifecycle leaves Running, the id is unregistered or the samples of the
\* model are used up.
C19_SamplesKeepComing ==
    \A ip \in {IpA, IpB} : \A n \in 0..(MaxSamples - 1) :
        (monitoring /\ ip \in monitored_ips /\ Len(hist_bw[ip].sent) = n)
            ~> \/ Len(hist_bw[ip].sent) > n
               \/ ~monitoring
               \/ ip \notin monitored_ips
               \/ BudgetSpent

\* Two passes have appended two samples of one id while the lifecycle
\* stayed Running.
C19_Witness ==
    /\ monitoring
    /\ IpA \in monitored_ips
    /\ Len(hist_bw[IpA].sent) = 2
    /\ pc[2] = "unborn"

\* No sampling thread is inside a pass and no handler of the GUI thread is
\* under way.
AtRest ==
    /\ gpc = "idle"
    /\ \A t \in Threads : pc[t] \notin InPass

\* The lengths of the four sequences kept for id ip; an id without an entry
\* reads as empty sequences (dict.get with the default).
SequenceLengths(ip) ==
    {Len(get(bandwidth_data, ip).sent), Len(get(bandwidth_data, ip).received),
     Len(get(packet_data, ip).sent), Len(get(packet_data, ip).received)}

\* C20: the four sequences kept for one id (bytes sent, bytes received,
\* packets sent, packets received) have the same length, whatever the
\* interleaving of the sampling loop with Clear Data.  Stated at rest, where
\* no pass is half-way through its four appends and no clear is half-way
\* through its two maps.
C20_FourSequencesSameLength ==
    AtRest => \A ip \in ValidTexts : Cardinality(SequenceLengths(ip)) = 1

\* C21: whenever the lifecycle is Running the registry is non-empty, after
\* any sequence of register, unregister, start and stop commands.
C21_RunningHasTargets == monitoring => monitored_ips # {}

\* C21 as the code has it: the lifecycle enters Running only over a
\* non-empty registry, which the start leaves as it is, and no change of the
\* registry changes the lifecycle: removing the last id of a run leaves the
\* lifecycle Running.
C21_RunningEnteredWithTargets ==
    [][/\ (~monitoring /\ monitoring') =>
               (monitored_ips # {} /\ monitored_ips' = monitored_ips)
       /\ monitored_ips' # monitored_ips =>
               (monitoring' = monitoring /\ monitoring_active' = monitoring_active)]_vars

\* Running over an empty registry: the only id was removed after the start.
C21_Witness ==
    /\ monitoring
    /\ monitoring_active
    /\ monitored_ips = {}
    /\ ip_listbox = <<>>

\* C22: after any sequence of add and remove commands of the GUI the
\* target listbox holds exactly the ids of the registry, each once; so the
\* id of every row is registered, a removed row included while another row
\* still shows its id.
C22_ListboxIsRegistry ==
    /\ Range(ip_listbox) = monitored_ips
    /\ Len(ip_listbox) = Cardinality(monitored_ips)

\* C24: after a stop that no start follows, every sampling loop ends: from
\* a lowered flag each thread gets to the end of _monitor_loop (or was never
\* started), unless the flag is raised again or the thread is about to
\* begin a pass that the samples of the model do not cover.
C24_LoopEndsAfterStop ==
    \A t \in Threads :
        ~monitoring ~> \/ pc[t] \in {"unborn", "done"}
                       \/ monitoring
                       \/ (pc[t] = "copy" /\ BudgetSpent)

\* A loop that sampled has ended after the stop, and the flag is still
\* lowered.
C24_Witness ==
    /\ ~monitoring
    /\ ~monitoring_active
    /\ pc[1] = "done"
    /\ Len(data_queue) > 0

(***************************************************************************)
(* Properties of the analyzer called directly (SpecReads).                 *)
(***************************************************************************)
\* C17: total, average, peak and trend are pure reads: a call for any id
\* leaves the registry, every window and the set of ids that have a window
\* as they were.
C17_AnalyzerReadsOnly ==
    [][/\ monitored_ips' = monitored_ips
       /\ DOMAIN bandwidth_data' = DOMAIN bandwidth_data
       /\ DOMAIN packet_data' = DOMAIN packet_data
       /\ bandwidth_data' = bandwidth_data
       /\ packet_data' = packet_data]_vars

\* The four functions have answered for an id that is not registered and
\* has no window, next to a registered id that has one.
C17_Witness ==
    /\ DOMAIN stats = {IpC}
    /\ stats[IpC].total = <<0, 0>>
    /\ stats[IpC].trend.trend = "insufficient_data"
    /\ IpC \notin monitored_ips
    /\ IpC \notin DOMAIN bandwidth_data
    /\ IpA \in monitored_ips
    /\ IpA \in DOMAIN bandwidth_data
    /\ Len(bandwidth_data[IpA].sent) = 2

(***************************************************************************)
(* Properties of the alert ring (SpecAlertRing).                           *)
(***************************************************************************)
\* C15: the alert ring never holds more than 100 alerts; an alert appended
\* to a ring that is not full goes to its end, and one appended to a full
\* ring removes the oldest alert and keeps the others in their order.
C15_AlertRingCapacity ==
    /\ [](Len(alerts) <= 100)
    /\ [][alerts' # alerts =>
             /\ Len(alerts) < 100 =>
                   (Len(alerts') = Len(alerts) + 1 /\ SubSeq(alerts', 1, Len(alerts)) = alerts)
             /\ Len(alerts) = 100 =>
                   (Len(alerts') = 100 /\ SubSeq(alerts', 1, 99) = SubSeq(alerts, 2, 100))
             /\ alerts'[Len(alerts')].message = alerts[Len(alerts)].message + 1]_vars

\* Two alerts were appended to a full ring: the two oldest are gone and the
\* others are in their order.
C15_Witness ==
    /\ Len(alerts) = 100
    /\ alerts[1].message = 3
    /\ alerts[99].message = 101
    /\ alerts[100].message = 102

(***************************************************************************)
(* Properties of export_data (SpecExport).                                 *)
(***************************************************************************)
\* The file that holds the JSON object with no entry.
EmptyDocument == [status |-> "success", doc |-> <<>>]

\* C12: export with an empty target set goes straight to the dump with the
\* empty object, the dump of the empty object can always succeed, and a
\* dump that succeeds leaves the file holding the object with no entry.
C12_EmptyExportSucceeds ==
    /\ []((gpc = "dump" /\ gdoc = <<>>) =>
             ENABLED (export_dump /\ export_file' = EmptyDocument))
    /\ [][/\ (gpc = "idle" /\ monitored_ips = {}) =>
                (gpc' = "dump" /\ gdoc' = <<>> /\ export_file' = export_file)
          /\ (gpc = "dump" /\ gdoc = <<>> /\ export_file'.status = "success") =>
                export_file' = EmptyDocument]_vars

\* Export has written the empty object for an empty registry while a
\* window of an id no longer registered holds a sample.
C12_Witness ==
    /\ gpc = "idle"
    /\ monitored_ips = {}
    /\ export_file = EmptyDocument
    /\ IpA \in DOMAIN bandwidth_data
    /\ bandwidth_data[IpA].sent # <<>>

\* C23: export leaves the core state unchanged: no step of export_data
\* changes the registry, the content of a window, the set of ids that have
\* a window or the lifecycle state, whether or not the exported ids have
\* been sampled.
C23_ExportLeavesCore ==
    [][/\ UNCHANGED <<monitored_ips, monitoring, monitoring_active>>
       /\ DOMAIN bandwidth_data' = DOMAIN bandwidth_data
       /\ DOMAIN packet_data' = DOMAIN packet_data
       /\ \A ip \in DOMAIN bandwidth_data : bandwidth_data'[ip] = bandwidth_data[ip]
       /\ \A ip \in DOMAIN packet_data : packet_data'[ip] = packet_data[ip]]_vars

(***************************************************************************)
(* Properties of the delivery queue (SpecDrain).                           *)
(***************************************************************************)
\* The samples the sampling thread has put on the queue, in the order of
\* their production: the rows of the sink, but for the sample that is
\* written and not yet put.
PutSoFar ==
    IF \E t \in Threads : pc[t] = "put"
    THEN SubSeq(db_log, 1, Len(db_log) - 1)
    ELSE db_log

\* C25: each sample put on the delivery queue is taken by the drain of the
\* GUI exactly once and in the order of production: the samples taken so
\* far followed by the samples still queued are the samples put, and the
\* samples taken by the drain under way are in recent_data.  A step that
\* removes a sample from the queue removes the oldest one and appends it
\* to recent_data, and the drain ends with the last 100 samples of
\* recent_data in the table, the newest in the first row.
C25_DrainedOnceInOrder ==
    /\ [](/\ drained \o data_queue = PutSoFar
          /\ gpc = "drain" => /\ Len(recent_data) <= Len(drained)
                               /\ recent_data = LastN(drained, Len(recent_data)))
    /\ [][/\ Len(data_queue') < Len(data_queue) =>
                /\ data_queue' = Tail(data_queue)
                /\ recent_data' = Append(recent_data, Head(data_queue))
          /\ (gpc = "drain" /\ gpc' = "idle") =>
                /\ Len(data_tree') <= TableRows
                /\ \A i \in 1..Len(data_tree') :
                       data_tree'[i] = recent_data[Len(recent_data) + 1 - i]
                /\ Len(recent_data) <= TableRows => Len(data_tree') = Len(recent_data)
                /\ Len(recent_data) > TableRows => Len(data_tree') = TableRows]_vars

\* One drain took the 101 samples that were queued and the two that the
\* sampling thread put while the drain was under way; the table shows the
\* last 100 of the 103, the newest on top.
C25_Witness ==
    /\ gpc = "idle"
    /\ Len(drained) = TableRows + 3
    /\ Len(data_tree) = TableRows
    /\ data_tree[1] = drained[Len(drained)]
    /\ data_tree[1].bytes_sent = 1024 + MaxSamples
    /\ data_tree[TableRows] = drained[4]
    /\ data_queue = <<>>

(***************************************************************************)
(* Properties of the registry (SpecRegistry).                              *)
(***************************************************************************)
KnownValid == {IpA, IpB, IpC, IpD, IpE, IpF, IpG}

KnownInvalid ==
    {EmptyText, BlankText, Bad999, Bad256, BadShort, BadLong, BadV6Short,
     BadV6Two, BadV6Big, BadV6Long, PaddedA}

\* C6: a call of register with a valid IPv4 or IPv6 text returns success and
\* leaves the text in the active set exactly once; when the text was
\* already registered the active set is unchanged.
C6_RegisterIdempotent ==
    [][\A s \in KnownValid :
          register(s) =>
              /\ ret' = "True"
              /\ Cardinality({x \in monitored_ips' : x = s}) = 1
              /\ (s \in monitored_ips => monitored_ips' = monitored_ips)
              /\ (s \notin monitored_ips => monitored_ips' = monitored_ips \cup {s})]_vars

\* A valid text registered again (the call before it failed), next to
\* another registered text.
C6_Witness ==
    /\ ret = "True"
    /\ {IpA, IpB} \subseteq monitored_ips

\* C7: a call of register with a text that is no valid address, the empty
\* text and 999.999.999.999 among them, returns failure and leaves the
\* active set as it was.
C7_InvalidRejected ==
    [][\A s \in KnownInvalid :
          register(s) => ret' = "False" /\ monitored_ips' = monitored_ips]_vars

\* A refused call on a registry that holds an address.
C7_Witness ==
    /\ ret = "False"
    /\ monitored_ips = {IpA}

(***************************************************************************)
(* Properties of the alert system (SpecAlerts).                            *)
(***************************************************************************)
Exceeds(q, threshold) == \E i \in 1..Len(q) : q[i] > threshold

Peak(q) == CHOOSE m \in {q[i] : i \in 1..Len(q)} : \A i \in 1..Len(q) : q[i] <= m

AlertOf(ip, kind, q, severity) ==
    [ip_address |-> ip, type |-> kind, message |-> Peak(q), severity |-> severity]

\* What one pass owes for one id: one alert per threshold exceeded.
Owed(ip) ==
    LET bs == IF ip \in DOMAIN bandwidth_data THEN bandwidth_data[ip].sent ELSE <<>>
        br == IF ip \in DOMAIN bandwidth_data THEN bandwidth_data[ip].received ELSE <<>>
        ps == IF ip \in DOMAIN packet_data THEN packet_data[ip].sent ELSE <<>>
    IN  (IF Exceeds(bs, 1048576)
         THEN <<AlertOf(ip, "HIGH_BANDWIDTH_OUT", bs, "MEDIUM")>> ELSE <<>>)
        \o (IF Exceeds(br, 1048576)
            THEN <<AlertOf(ip, "HIGH_BANDWIDTH_IN", br, "MEDIUM")>> ELSE <<>>)
        \o (IF Exceeds(ps, 1000)
            THEN <<AlertOf(ip, "SUSPICIOUS_PACKETS", ps, "HIGH")>> ELSE <<>>)

RECURSIVE OwedAll(_)
OwedAll(order) == IF order = <<>> THEN <<>> ELSE Owed(Head(order)) \o OwedAll(Tail(order))

\* C8: one evaluation pass appends, for each registered target, exactly one
\* alert per threshold that the window peak strictly exceeds, each of the
\* three checks on its own and with its own kind and severity, and nothing
\* for a threshold not exceeded or an empty window; an alert of a kind the
\* severity table does not list has severity LOW.
C8_AlertsPerBreach ==
    [][/\ check_for_anomalies =>
              \E order \in Orders(monitored_ips) : alerts' = alerts \o OwedAll(order)
       /\ \A ip \in monitored_ips, kind \in AlertKinds :
              raise_alert(ip, kind) =>
                  alerts'[Len(alerts')].severity =
                      IF kind \in {"HIGH_BANDWIDTH_OUT", "HIGH_BANDWIDTH_IN"} THEN "MEDIUM"
                      ELSE IF kind \in {"SUSPICIOUS_PACKETS", "RAPID_CONNECTIONS"} THEN "HIGH"
                      ELSE "LOW"]_vars

\* A window whose only breach is a sent value of 2,000,000 has produced
\* exactly one HIGH_BANDWIDTH_OUT alert of severity MEDIUM.
C8_Witness ==
    /\ monitored_ips = {IpA}
    /\ bandwidth_data[IpA] = [sent |-> <<1024, 2000000>>, received |-> <<1024>>]
    /\ packet_data[IpA].sent = <<SuspiciousPackets>>
    /\ alerts = <<[ip_address |-> IpA, type |-> "HIGH_BANDWIDTH_OUT",
                   message |-> 2000000, severity |-> "MEDIUM"]>>

(***************************************************************************)
(* Properties of the analyzer (SpecAnalyzer; the windows do not change     *)
(* there, so what was shown can be compared with the windows).             *)
(***************************************************************************)
SentOf(ip) == IF ip \in DOMAIN bandwidth_data THEN bandwidth_data[ip].sent ELSE <<>>

ReceivedOf(ip) == IF ip \in DOMAIN bandwidth_data THEN bandwidth_data[ip].received ELSE <<>>

\* C9: for a target whose window is empty or missing, average is (0, 0) and
\* peak is (0, 0); for a target whose sent window holds fewer than 2
\* points, trend is insufficient_data with slope 0.
C9_EmptyWindowResults ==
    \A ip \in DOMAIN stats :
        /\ (SentOf(ip) = <<>> /\ ReceivedOf(ip) = <<>>) =>
               /\ stats[ip].average = <<Zero, Zero>>
               /\ stats[ip].peak = <<0, 0>>
        /\ Len(SentOf(ip)) < 2 =>
               stats[ip].trend = [trend |-> "insufficient_data", slope |-> ExactZero]

\* Statistics shown for an id without a window and for an id whose sent
\* window holds one point.
C9_Witness ==
    /\ DOMAIN stats = {IpA, IpB}
    /\ IpB \notin DOMAIN bandwidth_data
    /\ IpA \in DOMAIN bandwidth_data
    /\ Len(bandwidth_data[IpA].sent) = 1

Increasing(y) == \A i \in 1..(Len(y) - 1) : y[i] < y[i + 1]

Decreasing(y) == \A i \in 1..(Len(y) - 1) : y[i] > y[i + 1]

Constant(y) == \A i \in 1..(Len(y) - 1) : y[i] = y[i + 1]

\* n*Sum(x*y) - Sum(x)*Sum(y) for x = 0, 1, ..: the sign of the slope of
\* the least-squares line
SlopeSign(y) ==
    LET n == Len(y)
        sxy == SumSeq([i \in 1..n |-> (i - 1) * y[i]])
        sx == SumSeq([i \in 1..n |-> i - 1])
        d == n * sxy - sx * SumSeq(y)
    IN  IF d > 0 THEN 1 ELSE IF d < 0 THEN -1 ELSE 0

\* C10: for a sent window of at least 2 points, trend is the sign of the
\* least-squares slope: increasing for a strictly increasing window,
\* decreasing for a strictly decreasing one, stable for a constant one.
C10_TrendIsSlopeSign ==
    \A ip \in DOMAIN stats :
        Len(SentOf(ip)) >= 2 =>
            /\ stats[ip].trend.trend =
                   IF SlopeSign(SentOf(ip)) > 0 THEN "increasing"
                   ELSE IF SlopeSign(SentOf(ip)) < 0 THEN "decreasing"
                   ELSE "stable"
            /\ Increasing(SentOf(ip)) => stats[ip].trend.trend = "increasing"
            /\ Decreasing(SentOf(ip)) => stats[ip].trend.trend = "decreasing"
            /\ Constant(SentOf(ip)) => stats[ip].trend.trend = "stable"

====
